---- MODULE Spec2Model ----
(***************************************************************************)
(* Model of src/src/telemetry/web/overlay.js: the render loop, the         *)
(* smoothing of the telemetry channels, the RPM ladder, the telemetry link *)
(* and the camera link of the HUD overlay (Spec, FairSpec), and the pure   *)
(* functions drawVideoFrame and formatLap on their own (PureSpec).         *)
(*                                                                         *)
(* JavaScript runs every callback to completion on one thread, so each     *)
(* callback (renderFrame, the telemetry listener, stream.onerror,          *)
(* sourceImg.onload, sourceImg.onerror, the retry timer) is one action.    *)
(*                                                                         *)
(* Numbers are exact rationals n/d (d > 0) and NaN (d = 0); the IEEE       *)
(* rounding of the doubles the program computes with is not modelled.      *)
(***************************************************************************)
EXTENDS Integers, Sequences, FiniteSets, TLC

(***************************************************************************)
(* Bounds of the model.                                                    *)
(***************************************************************************)
\* the clock stops advancing at MaxTime milliseconds
MaxTime == 1200
\* renderHud smooths at most this many times (the denominators grow by 50 a step)
MaxSmoothSteps == 2
\* the camera source fails at most this many times
MaxCamErrors == 2
\* the amounts of time that pass between two callbacks, in milliseconds
TimeSteps == {200, 600}

(***************************************************************************)
(* JavaScript values: numbers, undefined (also standing for null in a      *)
(* field) and a non-empty, non-numeric string.                             *)
(***************************************************************************)
Abs(x) == IF x < 0 THEN -x ELSE x

RECURSIVE GCD(_, _)
GCD(a, b) == IF b = 0 THEN a ELSE GCD(b, a % b)

\* the number n/d, d > 0, in lowest terms
Num(n, d) ==
  LET g == GCD(Abs(n), d)
  IN  [t |-> "number", n |-> n \div g, d |-> d \div g]

Whole(k) == Num(k, 1)

NaN == [t |-> "number", n |-> 0, d |-> 0]

Undefined == [t |-> "undefined", n |-> 0, d |-> 1]

Str == [t |-> "string", n |-> 0, d |-> 1]

IsNaN(x) == x.d = 0

\* a + b
Add(a, b) ==
  IF IsNaN(a) \/ IsNaN(b) THEN NaN
  ELSE LET g == GCD(a.d, b.d)
       IN  Num(a.n * (b.d \div g) + b.n * (a.d \div g), (a.d \div g) * b.d)

\* a - b
Sub(a, b) ==
  IF IsNaN(a) \/ IsNaN(b) THEN NaN
  ELSE Add(a, [t |-> "number", n |-> -b.n, d |-> b.d])

\* a * b
Mul(a, b) ==
  IF IsNaN(a) \/ IsNaN(b) THEN NaN
  ELSE LET g1 == GCD(Abs(a.n), b.d)
           g2 == GCD(Abs(b.n), a.d)
       IN  Num((a.n \div g1) * (b.n \div g2), (a.d \div g2) * (b.d \div g1))

\* a <= b, false when either is NaN
Leq(a, b) ==
  /\ ~IsNaN(a)
  /\ ~IsNaN(b)
  /\ LET g == GCD(a.d, b.d)
     IN  a.n * (b.d \div g) <= b.n * (a.d \div g)

\* a / b, for b other than 0
Div(a, b) ==
  IF IsNaN(a) \/ IsNaN(b) \/ b.n = 0 THEN NaN
  ELSE IF b.n > 0 THEN Mul(a, Num(b.d, b.n))
       ELSE Mul(a, Num(-b.d, -b.n))

\* a > b, false when either is NaN
Gt(a, b) == ~IsNaN(a) /\ ~IsNaN(b) /\ ~Leq(a, b)

\* ToBoolean: undefined, 0 and NaN are falsy, a non-empty string is truthy
Truthy(v) == v.t = "string" \/ (v.t = "number" /\ v.n # 0)

\* v || w
Or(v, w) == IF Truthy(v) THEN v ELSE w

\* ToNumber, as the operand of an arithmetic operator
ToNumber(v) == IF v.t = "number" THEN v ELSE NaN

(***************************************************************************)
(* Telemetry payloads.                                                     *)
(***************************************************************************)
Channels == {"speed", "rpm", "gLat", "gLong", "throttle", "brake"}

SystemFields == {"cpu_percent", "gpu_percent", "temp_c", "mem_used_percent"}

\* the fields of a snapshot that renderHud reads with an arithmetic or a
\* method call; lap.predicted_delta_s and system.* are written flat
Fields ==
  {"speed_mph", "rpm", "g_lat", "g_long", "throttle", "brake",
   "predicted_delta_s"} \cup SystemFields

\* the snapshot field each smoothed channel follows
RawField(ch) ==
  CASE ch = "speed"    -> "speed_mph"
    [] ch = "rpm"      -> "rpm"
    [] ch = "gLat"     -> "g_lat"
    [] ch = "gLong"    -> "g_long"
    [] ch = "throttle" -> "throttle"
    [] ch = "brake"    -> "brake"

\* the smoothing factor of each channel
Alpha(ch) ==
  CASE ch = "speed"    -> Num(20, 100)
    [] ch = "rpm"      -> Num(22, 100)
    [] ch = "gLat"     -> Num(18, 100)
    [] ch = "gLong"    -> Num(18, 100)
    [] ch = "throttle" -> Num(24, 100)
    [] ch = "brake"    -> Num(24, 100)

\* the value null: state.latest before the first snapshot, and JSON.parse("null")
Null == [t |-> "null", f |-> [k \in Fields |-> Undefined]]

\* a JSON object with the fields of fmap; every other field is missing
Object(fmap) ==
  [t |-> "object",
   f |-> [k \in Fields |-> IF k \in DOMAIN fmap THEN fmap[k] ELSE Undefined]]

SnapFull ==
  Object(("speed_mph" :> Whole(100)) @@ ("rpm" :> Whole(4500)) @@
         ("g_lat" :> Whole(1)) @@ ("g_long" :> Whole(-1)) @@
         ("throttle" :> Whole(1)) @@ ("brake" :> Num(1, 2)) @@
         ("predicted_delta_s" :> Num(-1, 8)) @@ ("cpu_percent" :> Whole(35)))

SnapSparse == Object("speed_mph" :> Whole(50))

SnapStrDelta ==
  Object(("speed_mph" :> Whole(50)) @@ ("rpm" :> Whole(4500)) @@
         ("predicted_delta_s" :> Str))

SnapStrSystem == Object(("speed_mph" :> Str) @@ ("cpu_percent" :> Str))

\* the values JSON.parse returns for the well-formed payloads of the model
JsonValues == {SnapFull, SnapSparse, SnapStrDelta, SnapStrSystem, Null}

\* event.data: a text that is well-formed JSON for the value json, or is not JSON
EventData ==
  [wellFormed : {TRUE}, json : JsonValues] \cup
  {[wellFormed |-> FALSE, json |-> Null]}

NoData == [wellFormed |-> FALSE, json |-> Null]

\* JSON.parse(data): throws a SyntaxError on a text that is not JSON
JSONparse(data) ==
  [threw |-> ~data.wellFormed,
   value |-> IF data.wellFormed THEN data.json ELSE Null]

(***************************************************************************)
(* Pure functions of overlay.js.                                           *)
(***************************************************************************)
\* lerp with the factor 1 + alpha: it steps past the target
lerpOvershoot(from, to, alpha) ==
  Add(from, Mul(Sub(ToNumber(to), from), Add(alpha, Whole(1))))

\* from + (to - from) * alpha
lerp(from, to, alpha) == Add(from, Mul(Sub(ToNumber(to), from), alpha))

\* dom.status.textContent: "live {n} fps", "reconnecting", "init failed", or
\* the text of the markup ("")
StatusText(kind, n) == [kind |-> kind, fps |-> n]

\* the delay of the camera retry timer, in milliseconds
RetryDelay == 600

\* the length of the FPS window, in milliseconds
FpsWindow == 1000

\* Math.max(a, b) and Math.min(a, b): NaN when either is NaN
MathMax(a, b) ==
  IF IsNaN(a) \/ IsNaN(b) THEN NaN ELSE IF Leq(a, b) THEN b ELSE a

MathMin(a, b) ==
  IF IsNaN(a) \/ IsNaN(b) THEN NaN ELSE IF Leq(a, b) THEN a ELSE b

\* Math.floor(x), for a number other than NaN, as an integer
Floor(x) == x.n \div x.d

\* Math.round(x): the nearest integer, a half rounded up
MathRound(x) ==
  IF IsNaN(x) THEN NaN ELSE Whole(Floor(Add(x, Num(1, 2))))

clamp(value, low, high) == MathMin(high, MathMax(low, value))

\* the number of segments setupRpmBars creates
RpmSegments == 30

\* activeBars of renderHud, for the smoothed rpm
activeBars(rpm) ==
  MathRound(Mul(clamp(Div(rpm, Whole(9000)), Whole(0), Whole(1)), Whole(30)))

\* the segments renderHud leaves with the class "active": those with
\* i < activeBars, none when activeBars is NaN
activeSegments(rpm) ==
  LET n == activeBars(rpm)
  IN  IF IsNaN(n) THEN {} ELSE {i \in 0..(RpmSegments - 1) : i < Floor(n)}

\* strings are sequences of characters
DigitChars == <<"0", "1", "2", "3", "4", "5", "6", "7", "8", "9">>

\* String(k) for an integer k
RECURSIVE String(_)
String(k) ==
  IF k < 0 THEN <<"-">> \o String(-k)
  ELSE IF k < 10 THEN <<DigitChars[k + 1]>>
       ELSE String(k \div 10) \o <<DigitChars[(k % 10) + 1]>>

\* str.padStart(len, ch)
RECURSIVE padStart(_, _, _)
padStart(str, len, ch) ==
  IF Len(str) >= len THEN str ELSE padStart(<<ch>> \o str, len, ch)

\* x.toFixed(3) for a number x: the nearest multiple of 1/1000 (the larger
\* one of two), written with three decimals
toFixed3(x) ==
  IF IsNaN(x) THEN <<"N", "a", "N">>
  ELSE LET neg == x.n < 0
           a == IF neg THEN Num(-x.n, x.d) ELSE x
           n == Floor(Add(Mul(a, Whole(1000)), Num(1, 2)))
       IN  (IF neg THEN <<"-">> ELSE <<>>) \o String(n \div 1000) \o <<".">>
              \o padStart(String(n % 1000), 3, "0")

\* formatLap(seconds), for a number other than NaN
formatLap(seconds) ==
  LET m == Floor(Div(seconds, Whole(60)))
      s == Sub(seconds, Whole(m * 60))
  IN  padStart(String(m), 2, "0") \o <<":">>
         \o padStart(toFixed3(s), 6, "0")

\* x.toFixed(k) throws a TypeError unless x is a number
ToFixedThrows(x) == x.t # "number"

\* renderHud on the snapshot t and the smoothed values sm: the new smoothed
\* values, whether the smoothing ran, whether the RPM ladder was reached (it
\* follows delta.toFixed), and whether a toFixed call threw (after the
\* smoothing, before renderHud returned)
renderHud(t, sm) ==
  IF t.t # "object"
  THEN [smooth |-> sm, ran |-> FALSE, ladder |-> FALSE, threw |-> FALSE]
  ELSE [smooth |-> [ch \in Channels |->
                      lerp(sm[ch], Or(t.f[RawField(ch)], Whole(0)), Alpha(ch))],
        ran    |-> TRUE,
        ladder |-> ~ToFixedThrows(Or(t.f["predicted_delta_s"], Whole(0))),
        threw  |-> \/ ToFixedThrows(Or(t.f["predicted_delta_s"], Whole(0)))
                   \/ \E k \in SystemFields :
                        /\ t.f[k].t # "undefined"
                        /\ ToFixedThrows(t.f[k])]

(***************************************************************************)
(* The compositor: drawVideoFrame returns the calls it makes on the 2D     *)
(* context, in order.                                                      *)
(***************************************************************************)
\* dom.sourceImg.naturalWidth and naturalHeight: the size of the bitmap when
\* the image is available, 0 otherwise
naturalWidth(request, bitmap) == IF request = "loaded" THEN bitmap[1] ELSE 0

naturalHeight(request, bitmap) == IF request = "loaded" THEN bitmap[2] ELSE 0

\* ctx.fillStyle: a colour, or the gradient from rgba(4,6,8,top/100) at the top
\* edge to rgba(4,6,8,bottom/100) at the bottom edge
Colour(c) == [kind |-> "colour", colour |-> c, top |-> 0, bottom |-> 0]

Shade(top, bottom) ==
  [kind |-> "gradient", colour |-> "rgba(4,6,8)", top |-> top, bottom |-> bottom]

NoRect == <<Whole(0), Whole(0), Whole(0), Whole(0)>>

\* ctx.fillRect(0, 0, w, h) with the fill style
FillRect(style, w, h) ==
  [op |-> "fillRect", style |-> style, text |-> "",
   src |-> NoRect, dst |-> <<0, 0, w, h>>]

\* ctx.fillText(text, ...) with the fill style
FillText(text, style) ==
  [op |-> "fillText", style |-> style, text |-> text,
   src |-> NoRect, dst |-> <<0, 0, 0, 0>>]

\* ctx.drawImage(img, sx, sy, sWidth, sHeight, 0, 0, w, h)
DrawImage(sx, sy, sWidth, sHeight, w, h) ==
  [op |-> "drawImage", style |-> Colour(""), text |-> "",
   src |-> <<sx, sy, sWidth, sHeight>>, dst |-> <<0, 0, w, h>>]

\* the crop rectangle <<sx, sy, sWidth, sHeight>> of a sw x sh source for a
\* w x h canvas, cropping the width when wide and the height otherwise
Crop(wide, sw, sh, w, h) ==
  LET targetRatio == Num(w, h)
      sWidth  == IF wide THEN Mul(Whole(sh), targetRatio) ELSE Whole(sw)
      sHeight == IF wide THEN Whole(sh) ELSE Div(Whole(sw), targetRatio)
      sx == IF wide THEN Mul(Sub(Whole(sw), sWidth), Num(1, 2)) ELSE Whole(0)
      sy == IF wide THEN Whole(0) ELSE Mul(Sub(Whole(sh), sHeight), Num(1, 2))
  IN  <<sx, sy, sWidth, sHeight>>

\* the placeholder branch of drawVideoFrame
NoSignal(w, h) ==
  <<FillRect(Colour("#05070a"), w, h), FillText("NO SIGNAL", Colour("#ff6a23"))>>

\* the image branch of drawVideoFrame
Picture(wide, sw, sh, w, h, inset) ==
  LET c == Crop(wide, sw, sh, w, h)
  IN  <<DrawImage(c[1], c[2], c[3], c[4], w, h),
        FillRect(Shade(22, IF inset THEN 52 ELSE 32), w, h)>>

\* drawVideoFrame testing the natural width only
drawVideoFrameWidthOnly(sw, sh, w, h, inset) ==
  IF sw = 0 THEN NoSignal(w, h)
  ELSE Picture(Gt(Num(sw, sh), Num(w, h)), sw, sh, w, h, inset)

\* drawVideoFrame with the same gradient on both canvases
drawVideoFrameOneShade(sw, sh, w, h, inset) ==
  IF sw = 0 \/ sh = 0 THEN NoSignal(w, h)
  ELSE Picture(Gt(Num(sw, sh), Num(w, h)), sw, sh, w, h, FALSE)

\* drawVideoFrame cropping the other axis
drawVideoFrameOtherAxis(sw, sh, w, h, inset) ==
  IF sw = 0 \/ sh = 0 THEN NoSignal(w, h)
  ELSE Picture(~Gt(Num(sw, sh), Num(w, h)), sw, sh, w, h, inset)

\* drawVideoFrame(ctx, canvas, inset) with naturalWidth = sw, naturalHeight = sh,
\* canvas.width = w and canvas.height = h
drawVideoFrame(sw, sh, w, h, inset) ==
  IF sw = 0 \/ sh = 0 THEN NoSignal(w, h)
  ELSE Picture(Gt(Num(sw, sh), Num(w, h)), sw, sh, w, h, inset)

(***************************************************************************)
(* The state.                                                              *)
(***************************************************************************)
VARIABLES
  pc,               \* init(): "init" while the config is fetched, then "running" or "failed"
  now,              \* the clock, in milliseconds since the script was loaded
  connected,        \* state.connected (telemetryConnected)
  latest,           \* state.latest
  cameraConnected,  \* state.cameraConnected
  img,              \* dom.sourceImg's request: "none", "pending", "loaded", "broken"
  requests,         \* the number of assignments to dom.sourceImg.src
  timers,           \* the deadlines of the pending setTimeout callbacks
  smooth,           \* state.smooth
  fps,              \* state.fps
  frameCount,       \* state.frameCount
  lastFpsTs,        \* state.lastFpsTs
  status,           \* dom.status.textContent
  raf,              \* the number of pending requestAnimationFrame callbacks
  rpmBars,          \* the children of dom.rpmBars (by index) with the class "active"
  steps,            \* the calls of the last renderFrame, in order
  frameTs,          \* the timestamp of the last animation frame
  camErrors,        \* the number of error events of dom.sourceImg
  smoothSteps,      \* the number of renderHud calls that smoothed
  lastTel,          \* the last callback of the telemetry stream, and its event data
  call              \* a call of a pure function: its arguments and, once done, its result

telemetryVars == <<connected, latest>>

cameraVars == <<cameraConnected, img, requests, timers>>

renderVars ==
  <<smooth, fps, frameCount, lastFpsTs, status, raf, steps, rpmBars>>

envVars == <<pc, now, frameTs, camErrors, smoothSteps>>

sessionVars == <<telemetryVars, cameraVars, renderVars, envVars, lastTel>>

vars == <<sessionVars, call>>

\* no call of a pure function is being followed
NoCall == [fn |-> "none", arg |-> <<>>, done |-> FALSE, out |-> <<>>]

Ran(kind, data) == [kind |-> kind, data |-> data]

\* the state when the script has been loaded and init() awaits the config
Loaded ==
  /\ pc = "init"
  /\ now = 0
  /\ connected = FALSE
  /\ latest = Null
  /\ cameraConnected = FALSE
  /\ img = "none"
  /\ requests = 0
  /\ timers = <<>>
  /\ smooth = [ch \in Channels |-> Whole(0)]
  /\ fps = 0
  /\ frameCount = 0
  /\ lastFpsTs = 0
  /\ status = StatusText("", 0)
  /\ raf = 0
  /\ rpmBars = {}
  /\ steps = <<>>
  /\ frameTs = 0
  /\ camErrors = 0
  /\ smoothSteps = 0
  /\ lastTel = Ran("none", NoData)

Init == Loaded /\ call = NoCall

(***************************************************************************)
(* The callbacks.                                                          *)
(***************************************************************************)
\* renderFrame(now)
renderFrame ==
  LET hud == renderHud(latest, smooth)
  IN  /\ smooth' = hud.smooth
      /\ rpmBars' = IF hud.ladder THEN activeSegments(hud.smooth["rpm"])
                                  ELSE rpmBars
      /\ IF hud.threw
         THEN /\ steps' = <<"drawMain", "drawInset", "renderHud">>
              /\ raf' = raf - 1
              /\ UNCHANGED <<fps, frameCount, lastFpsTs, status>>
         ELSE /\ steps' = <<"drawMain", "drawInset", "renderHud", "fps">>
              /\ raf' = (raf - 1) + 1
              /\ IF now - lastFpsTs >= FpsWindow
                 THEN /\ fps' = frameCount + 1
                      /\ frameCount' = 0
                      /\ lastFpsTs' = now
                      /\ status' = IF connected
                                   THEN StatusText("live", frameCount + 1)
                                   ELSE StatusText("reconnecting", 0)
                 ELSE /\ frameCount' = frameCount + 1
                      /\ UNCHANGED <<fps, lastFpsTs, status>>
      /\ UNCHANGED <<telemetryVars, cameraVars>>

\* the listener assigning state.latest also when JSON.parse failed
onTelemetryAdoptsFailure(data) ==
  /\ connected' = TRUE
  /\ latest' = JSONparse(data).value
  /\ UNCHANGED <<cameraVars, renderVars>>

\* the listener merging the new snapshot into the old one (Object.assign)
onTelemetryMerge(data) ==
  /\ connected' = TRUE
  /\ latest' = IF JSONparse(data).threw THEN latest
                ELSE [t |-> JSONparse(data).value.t,
                      f |-> [k \in Fields |->
                               IF JSONparse(data).value.f[k].t = "undefined"
                               THEN latest.f[k]
                               ELSE JSONparse(data).value.f[k]]]
  /\ UNCHANGED <<cameraVars, renderVars>>

\* the "telemetry" listener of connectTelemetry, on an event with event.data = data
onTelemetry(data) ==
  /\ connected' = TRUE
  /\ latest' = IF JSONparse(data).threw THEN latest ELSE JSONparse(data).value
  /\ UNCHANGED <<cameraVars, renderVars>>

\* stream.onerror dropping the snapshot as well
onStreamErrorClearsLatest ==
  /\ connected' = FALSE
  /\ latest' = Null
  /\ UNCHANGED <<cameraVars, renderVars>>

\* stream.onerror
onStreamError ==
  /\ connected' = FALSE
  /\ UNCHANGED <<latest, cameraVars, renderVars>>

\* onload counting the camera frame in state.frameCount
onloadCountsFrame ==
  /\ cameraConnected' = TRUE
  /\ frameCount' = frameCount + 1
  /\ UNCHANGED <<requests, timers, telemetryVars,
                 smooth, fps, lastFpsTs, status, raf, steps, rpmBars>>

\* dom.sourceImg.onload
onload ==
  /\ cameraConnected' = TRUE
  /\ UNCHANGED <<requests, timers, telemetryVars, renderVars>>

\* reconnect arming two timers for one error
reconnectTwice ==
  /\ cameraConnected' = FALSE
  /\ timers' = timers \o <<now + RetryDelay, now + RetryDelay>>
  /\ UNCHANGED <<requests, telemetryVars, renderVars>>

\* reconnect with a delay that grows with the number of requests made
reconnectBackoff ==
  /\ cameraConnected' = FALSE
  /\ timers' = Append(timers, now + RetryDelay * requests)
  /\ UNCHANGED <<requests, telemetryVars, renderVars>>

\* reconnect, as dom.sourceImg.onerror
reconnect ==
  /\ cameraConnected' = FALSE
  /\ timers' = Append(timers, now + RetryDelay)
  /\ UNCHANGED <<requests, telemetryVars, renderVars>>

\* the timer callback marking the camera connected when it re-requests
retryTimeoutOptimistic ==
  /\ timers' = Tail(timers)
  /\ requests' = requests + 1
  /\ cameraConnected' = TRUE
  /\ UNCHANGED <<telemetryVars, renderVars>>

\* the callback of reconnect's setTimeout
retryTimeout ==
  /\ timers' = Tail(timers)
  /\ requests' = requests + 1
  /\ UNCHANGED <<cameraConnected, telemetryVars, renderVars>>

\* init(), from the fetch of /api/config on
initBody ==
  /\ requests' = requests + 1
  /\ raf' = raf + 1
  /\ UNCHANGED <<cameraConnected, timers, telemetryVars,
                 smooth, fps, frameCount, lastFpsTs, status, steps, rpmBars>>

\* the catch of init() starting the render loop all the same
initCatchStartsLoop ==
  /\ status' = StatusText("init failed", 0)
  /\ raf' = raf + 1
  /\ UNCHANGED <<telemetryVars, cameraVars,
                 smooth, fps, frameCount, lastFpsTs, steps, rpmBars>>

\* the catch of init()
initCatch ==
  /\ status' = StatusText("init failed", 0)
  /\ UNCHANGED <<telemetryVars, cameraVars,
                 smooth, fps, frameCount, lastFpsTs, raf, steps, rpmBars>>

(***************************************************************************)
(* The actions: the environment runs one callback at a time.               *)
(***************************************************************************)
\* time passes and no callback runs
TimePasses ==
  /\ \E dt \in TimeSteps : now + dt <= MaxTime /\ now' = now + dt
  /\ UNCHANGED <<telemetryVars, cameraVars, renderVars,
                 pc, frameTs, camErrors, smoothSteps, lastTel>>
  /\ UNCHANGED call

\* the config is fetched and init() runs to its end
InitOk ==
  /\ pc = "init"
  /\ initBody
  /\ pc' = "running"
  /\ img' = "pending"
  /\ UNCHANGED <<now, frameTs, camErrors, smoothSteps, lastTel>>
  /\ UNCHANGED call

\* the fetch of the config fails
InitFail ==
  /\ pc = "init"
  /\ initCatch
  /\ pc' = "failed"
  /\ UNCHANGED <<now, frameTs, camErrors, smoothSteps, lastTel>>
  /\ UNCHANGED call

\* the display runs the pending animation frame callback
RenderFrame ==
  /\ raf > 0
  /\ now > frameTs
  /\ latest.t = "object" => smoothSteps < MaxSmoothSteps
  /\ renderFrame
  /\ frameTs' = now
  /\ smoothSteps' = IF latest.t = "object" THEN smoothSteps + 1 ELSE smoothSteps
  /\ UNCHANGED <<pc, now, camErrors, lastTel>>
  /\ UNCHANGED call

\* the stream delivers a "telemetry" event with event.data = data
Telemetry(data) ==
  /\ pc = "running"
  /\ onTelemetry(data)
  /\ lastTel' = Ran("event", data)
  /\ UNCHANGED envVars
  /\ UNCHANGED call

TelemetryEvent == \E data \in EventData : Telemetry(data)

\* the stream reports a transport error
TelemetryError ==
  /\ pc = "running"
  /\ onStreamError
  /\ lastTel' = Ran("error", NoData)
  /\ UNCHANGED envVars
  /\ UNCHANGED call

\* the camera image (or its next part) loads
CameraLoad ==
  /\ img \in {"pending", "loaded"}
  /\ onload
  /\ img' = "loaded"
  /\ UNCHANGED <<envVars, lastTel>>
  /\ UNCHANGED call

\* the camera request fails
CameraError ==
  /\ img \in {"pending", "loaded"}
  /\ camErrors < MaxCamErrors
  /\ reconnect
  /\ img' = "broken"
  /\ camErrors' = camErrors + 1
  /\ UNCHANGED <<pc, now, frameTs, smoothSteps, lastTel>>
  /\ UNCHANGED call

\* a retry timer fires, at or after its deadline
CameraRetry ==
  /\ timers # <<>>
  /\ now >= Head(timers)
  /\ retryTimeout
  /\ img' = "pending"
  /\ UNCHANGED <<envVars, lastTel>>
  /\ UNCHANGED call

Next ==
  \/ TimePasses
  \/ InitOk
  \/ InitFail
  \/ RenderFrame
  \/ TelemetryEvent
  \/ TelemetryError
  \/ CameraLoad
  \/ CameraError
  \/ CameraRetry

Spec == Init /\ [][Next]_vars

\* timers fire and time passes
FairSpec == Spec /\ WF_vars(CameraRetry) /\ WF_vars(TimePasses)

(***************************************************************************)
(* The pure functions, each applied once to arguments drawn from a bounded *)
(* set.                                                                    *)
(***************************************************************************)
\* widths and heights of the camera bitmap, 0 for an image without a size
BitmapSizes == {0, 3, 4, 9, 16, 21}

\* widths and heights of a canvas: resizeCanvas keeps them at 1 or more
CanvasSizes == {1, 3, 4, 9, 16}

\* the states of the camera image, as in the variable img
Requests == {"none", "pending", "loaded", "broken"}

\* the calls of drawVideoFrame: the camera image, the canvas, the variant
DrawCalls ==
  {[fn |-> "drawVideoFrame", done |-> FALSE, out |-> <<>>,
    arg |-> [request |-> r, bitmap |-> b, canvas |-> c, inset |-> i]] :
     r \in Requests, b \in BitmapSizes \X BitmapSizes,
     c \in CanvasSizes \X CanvasSizes, i \in BOOLEAN}

\* lap times in seconds: the examples of the documentation, times within a
\* millisecond of a whole minute, and a time of 100 minutes
LapTimes ==
  {Whole(0), Num(1254, 10), Num(4, 10000), Num(5, 10000), Num(99995, 10000),
   Num(599994, 10000), Num(599996, 10000), Whole(60), Num(1199996, 10000),
   Num(83456, 1000), Num(35999999, 10000), Whole(6000)}

\* the calls of formatLap
LapCalls ==
  {[fn |-> "formatLap", done |-> FALSE, out |-> <<>>, arg |-> x] :
     x \in LapTimes}

Calls == DrawCalls \cup LapCalls

PureInit == Loaded /\ call \in Calls

\* renderFrame's call drawVideoFrame(ctx, canvas, inset)
DrawVideoFrame ==
  /\ call.fn = "drawVideoFrame"
  /\ ~call.done
  /\ call' = [call EXCEPT
       !.done = TRUE,
       !.out = drawVideoFrame(naturalWidth(call.arg.request, call.arg.bitmap),
                              naturalHeight(call.arg.request, call.arg.bitmap),
                              call.arg.canvas[1], call.arg.canvas[2],
                              call.arg.inset)]
  /\ UNCHANGED sessionVars

\* renderHud's call formatLap(seconds)
FormatLap ==
  /\ call.fn = "formatLap"
  /\ ~call.done
  /\ call' = [call EXCEPT !.done = TRUE, !.out = formatLap(call.arg)]
  /\ UNCHANGED sessionVars

PureNext ==
  \/ DrawVideoFrame
  \/ FormatLap

PureSpec == PureInit /\ [][PureNext]_vars

(***************************************************************************)
(* Helpers of the properties.                                              *)
(***************************************************************************)
\* the raw value channel ch is smoothed toward: the field of the latest
\* snapshot, 0 when the field is missing or there is no snapshot
Raw(ch) == Or(latest.f[RawField(ch)], Whole(0))

IsNumeric(v) == v.t = "number" /\ ~IsNaN(v)

\* x lies between v and r, ends included
Between(v, x, r) == (Leq(v, x) /\ Leq(x, r)) \/ (Leq(r, x) /\ Leq(x, v))

FullTick == <<"drawMain", "drawInset", "renderHud", "fps">>

\* drawVideoFrame has been called and has returned
Drawn == call.fn = "drawVideoFrame" /\ call.done

\* the camera bitmap is available and has a width and a height
HasBitmap ==
  /\ call.arg.request = "loaded"
  /\ call.arg.bitmap[1] > 0
  /\ call.arg.bitmap[2] > 0

\* the destination rectangle: the whole canvas
WholeCanvas == <<0, 0, call.arg.canvas[1], call.arg.canvas[2]>>

\* the call is the fill of the whole canvas with a gradient that is darker at
\* the bottom edge than at the top edge
IsDarkening(c) ==
  /\ c.op = "fillRect"
  /\ c.style.kind = "gradient"
  /\ c.style.top < c.style.bottom
  /\ c.dst = WholeCanvas

(***************************************************************************)
(* The properties.                                                         *)
(***************************************************************************)
\* C1: once the render loop has started, a render tick is always scheduled:
\* every tick is followed by another one, whatever the events and the
\* payloads were.
C1_LoopNeverStops == pc = "running" => raf >= 1

\* C2: a telemetry event whose payload fails to parse leaves the latest
\* snapshot as it was (or still none) and leaves the render loop and the
\* smoothed values alone; a render tick reads the latest snapshot and does
\* not change it.
C2_ParseFailureNotAdopted ==
  [][/\ \A data \in EventData :
          (JSONparse(data).threw /\ Telemetry(data)) =>
             (latest' = latest /\ raf' = raf /\ smooth' = smooth)
     /\ RenderFrame => latest' = latest]_vars

\* C2 witness: an unparseable event arrived after a snapshot was adopted and
\* rendered, and the snapshot is still the latest.
C2_Witness ==
  /\ lastTel = Ran("event", NoData)
  /\ latest = SnapFull
  /\ smooth["speed"] = Whole(20)
  /\ raf = 1

\* C3: after a telemetry event with a parseable payload, the latest snapshot
\* is exactly that payload: every field has the payload's value, and a field
\* missing from the payload is missing from latest.
C3_SecondReplacesFirst ==
  (lastTel.kind = "event" /\ lastTel.data.wellFormed) =>
     \A k \in Fields : latest.f[k] = lastTel.data.json.f[k]

\* C3 witness: SnapSparse arrived after SnapFull had been adopted and rendered;
\* the rpm of SnapFull is missing from latest.
C3_Witness ==
  /\ lastTel.kind = "event"
  /\ lastTel.data.json = SnapSparse
  /\ smooth["rpm"] = Whole(990)
  /\ latest.f["rpm"] = Undefined

\* C4: a transport error sets telemetryConnected to false and changes nothing
\* else; while the error is the last callback of the stream, every render tick
\* moves each smoothed channel toward the raw value of the snapshot adopted
\* last (strictly closer to it, never past it), not toward zero.
C4_ErrorKeepsSnapshot ==
  [][/\ TelemetryError =>
          (~connected' /\ UNCHANGED <<latest, cameraVars, renderVars>>)
     /\ (RenderFrame /\ lastTel.kind = "error" /\ latest.t = "object") =>
          \A ch \in Channels :
             (IsNumeric(Raw(ch)) /\ IsNumeric(smooth[ch])
                /\ smooth[ch] # Raw(ch)) =>
                (smooth'[ch] # smooth[ch]
                   /\ Between(smooth[ch], smooth'[ch], Raw(ch)))]_vars

\* C4 witness: the stream failed with SnapFull adopted, and ticks have
\* smoothed toward it.
C4_Witness ==
  /\ lastTel.kind = "error"
  /\ ~connected
  /\ latest = SnapFull
  /\ smooth["speed"] = Whole(36)

\* C5: a camera load error sets cameraConnected to false in the same step,
\* issues no request itself and arms one timer for 600ms later; a request is
\* issued only by init and by a timer that has reached its deadline, one for
\* each; so the requests issued are 1 plus the errors whose timer has fired.
C5_OneRetryPerError ==
  /\ [](pc = "running" => requests = 1 + camErrors - Len(timers))
  /\ [][/\ CameraError =>
             /\ ~cameraConnected'
             /\ requests' = requests
             /\ timers' = Append(timers, now + 600)
        /\ (requests' # requests /\ pc = "running") =>
             /\ requests' = requests + 1
             /\ timers # <<>>
             /\ now >= Head(timers)
             /\ timers' = Tail(timers)]_vars

\* C5 witness: two load errors, each followed by one retry request.
C5_Witness ==
  /\ camErrors = 2
  /\ requests = 3
  /\ timers = <<>>
  /\ now >= 1200

\* C6: the camera retry never gives up and never backs off: whatever the
\* number of failures so far, the delay left on a pending retry timer is never
\* more than 600ms, a pending timer leads to the next camera request (timers
\* fire and time passes; deadlines beyond the clock's bound are left out), and
\* a load of the camera image sets cameraConnected.
C6_RetryNeverGivesUp ==
  /\ [](\A i \in 1..Len(timers) : timers[i] - now <= 600)
  /\ (timers # <<>> /\ Head(timers) <= MaxTime)
        ~> (timers = <<>> /\ img = "pending" /\ requests = camErrors + 1)
  /\ [][CameraLoad => cameraConnected']_vars

\* C6 witness: the camera failed twice, was requested again each time, and
\* then loaded.
C6_Witness ==
  /\ camErrors = 2
  /\ requests = 3
  /\ img = "loaded"
  /\ cameraConnected

\* C7: every render tick runs its steps in this order, each once: the main
\* surface, the inset surface, the gauges (with the smoothing), the FPS
\* accounting.
C7_TickStepsInOrder == steps = <<>> \/ steps = FullTick

\* C8: after each render tick every smoothed channel is
\* v_prev + (raw - v_prev) * alpha, raw being the channel's value in the latest
\* snapshot, or 0 when the field is missing or there is no snapshot; nothing
\* but a render tick assigns the smoothed values.
C8_SmoothingRule ==
  [][/\ RenderFrame =>
          \A ch \in Channels :
             smooth'[ch] = lerp(smooth[ch], Raw(ch), Alpha(ch))
     /\ smooth' # smooth => RenderFrame]_vars

\* C9: on every render tick each smoothed channel with a numeric value and a
\* numeric raw value ends between its previous value and the raw value, ends
\* included: the distance to the raw value does not grow and the value does
\* not cross the raw value. With the raw value constant over several ticks
\* this is monotone convergence without overshoot.
C9_NoOvershoot ==
  [][RenderFrame =>
       \A ch \in Channels :
          (IsNumeric(Raw(ch)) /\ IsNumeric(smooth[ch])) =>
             Between(smooth[ch], smooth'[ch], Raw(ch))]_vars

\* C9 witness: two ticks with the raw speed 100: 0, 20, 36; and the negative
\* raw g_long -1: 0, -9/50, -819/2500.
C9_Witness ==
  /\ latest = SnapFull
  /\ smooth["speed"] = Whole(36)
  /\ smooth["gLong"] = Num(-819, 2500)
  /\ smoothSteps = 2

\* C10: every render tick adds 1 to the frame counter; on a tick at least
\* 1000ms after the window start the FPS becomes the ticks counted since the
\* last reset, the counter becomes 0, the window start becomes the tick's
\* timestamp and the status text becomes "live {fps} fps" if telemetryConnected
\* and "reconnecting" otherwise; on any other tick the FPS and the status text
\* are unchanged.
C10_FpsAccounting ==
  [][RenderFrame =>
       IF now - lastFpsTs >= 1000
       THEN /\ fps' = frameCount + 1
            /\ frameCount' = 0
            /\ lastFpsTs' = now
            /\ status' = IF connected THEN StatusText("live", fps')
                                      ELSE StatusText("reconnecting", 0)
       ELSE /\ frameCount' = frameCount + 1
            /\ fps' = fps
            /\ lastFpsTs' = lastFpsTs
            /\ status' = status]_vars

\* C11: once the fetch of the config has failed, the status text is
\* "init failed" and init is not run again; no camera request is issued, no
\* timer armed, no telemetry callback runs, no render tick is scheduled or
\* run, and no step changes the status text.
C11_InitFailedIsFinal ==
  /\ [](pc = "failed" =>
          /\ status = StatusText("init failed", 0)
          /\ img = "none" /\ requests = 0 /\ timers = <<>>
          /\ ~cameraConnected
          /\ lastTel.kind = "none" /\ ~connected /\ latest = Null
          /\ raf = 0 /\ steps = <<>> /\ frameCount = 0)
  /\ [][pc = "failed" => (pc' = "failed" /\ status' = status)]_vars

\* C11 witness: the fetch failed, and more than one FPS window has passed
\* since.
C11_Witness ==
  /\ pc = "failed"
  /\ status = StatusText("init failed", 0)
  /\ now >= 1200

\* C12: a call of the compositor while the camera image is not loaded (before
\* the first load, after an error, during a retry) or has the natural width or
\* height 0 fills the whole canvas with the dark background, then draws the
\* "NO SIGNAL" label, and makes no drawImage call.
C12_NoSignalPlaceholder ==
  (Drawn /\ ~HasBitmap) =>
     /\ Len(call.out) = 2
     /\ call.out[1].op = "fillRect"
     /\ call.out[1].style = Colour("#05070a")
     /\ call.out[1].dst = WholeCanvas
     /\ call.out[2].op = "fillText"
     /\ call.out[2].text = "NO SIGNAL"
     /\ \A i \in 1..Len(call.out) : call.out[i].op # "drawImage"

\* C12 witness: the compositor ran while the first camera request was pending.
C12_Witness ==
  /\ Drawn
  /\ call.arg.request = "pending"
  /\ call.arg.bitmap = <<16, 9>>
  /\ call.out[2].text = "NO SIGNAL"

\* C13, as stated: every call of the compositor ends with the fill of the
\* darkening gradient.
C13_ShadeAlwaysLast ==
  Drawn => (call.out # <<>> /\ IsDarkening(call.out[Len(call.out)]))

\* C13, amended: a call of the compositor that draws the camera image makes
\* two calls, drawImage and then the fill of the darkening gradient, whose
\* bottom stop is darker for the inset variant than for the main variant on
\* the same image and canvas; a call that draws the placeholder applies no
\* gradient.
C13_ShadeAfterImage ==
  Drawn =>
     IF HasBitmap
     THEN /\ Len(call.out) = 2
          /\ call.out[1].op = "drawImage"
          /\ IsDarkening(call.out[2])
          /\ LET shade(inset) ==
                    drawVideoFrame(call.arg.bitmap[1], call.arg.bitmap[2],
                                   call.arg.canvas[1], call.arg.canvas[2],
                                   inset)[2].style
             IN  /\ call.out[2].style = shade(call.arg.inset)
                 /\ shade(TRUE).top = shade(FALSE).top
                 /\ shade(TRUE).bottom > shade(FALSE).bottom
     ELSE \A i \in 1..Len(call.out) : call.out[i].style.kind # "gradient"

\* C13 witness: the inset variant drew a loaded 4x3 image.
C13_Witness ==
  /\ Drawn
  /\ HasBitmap
  /\ call.arg.inset
  /\ call.arg.bitmap = <<4, 3>>
  /\ call.out[2].style = Shade(22, 52)

\* C14: for a bitmap and a canvas of positive sizes the crop rectangle lies
\* inside the bitmap, is centred, has the aspect ratio of the canvas and is
\* drawn onto the whole canvas; the width is cropped when the bitmap's aspect
\* ratio is greater than the canvas's, the height otherwise.
C14_CentreCrop ==
  (Drawn /\ HasBitmap) =>
     LET sw == Whole(call.arg.bitmap[1])
         sh == Whole(call.arg.bitmap[2])
         w  == Whole(call.arg.canvas[1])
         h  == Whole(call.arg.canvas[2])
         sx == call.out[1].src[1]
         sy == call.out[1].src[2]
         sWidth  == call.out[1].src[3]
         sHeight == call.out[1].src[4]
     IN  /\ call.out[1].op = "drawImage"
         /\ Leq(Whole(0), sx) /\ Leq(Whole(0), sy)
         /\ Gt(sWidth, Whole(0)) /\ Gt(sHeight, Whole(0))
         /\ Leq(Add(sx, sWidth), sw) /\ Leq(Add(sy, sHeight), sh)
         /\ Add(Add(sx, sWidth), sx) = sw
         /\ Add(Add(sy, sHeight), sy) = sh
         /\ Mul(sWidth, h) = Mul(sHeight, w)
         /\ call.out[1].dst = WholeCanvas
         /\ IF Gt(Mul(sw, h), Mul(sh, w))
            THEN Gt(sw, sWidth) /\ sHeight = sh
            ELSE sWidth = sw /\ Leq(sHeight, sh)
         /\ (call.arg.bitmap = <<4, 3>> /\ call.arg.canvas = <<16, 9>>) =>
               (sWidth = sw /\ Gt(sh, sHeight))
         /\ (call.arg.bitmap = <<21, 9>> /\ call.arg.canvas = <<16, 9>>) =>
               (sHeight = sh /\ Gt(sw, sWidth))

\* C14 witness: 21x9 drawn into 16x9 takes the columns 5/2 to 37/2, and 4x3
\* into 16x9 would take the rows 3/8 to 21/8.
C14_Witness ==
  /\ Drawn
  /\ call.arg.request = "loaded"
  /\ call.arg.bitmap = <<21, 9>>
  /\ call.arg.canvas = <<16, 9>>
  /\ call.out[1].src = <<Num(5, 2), Whole(0), Whole(16), Whole(9)>>
  /\ Crop(FALSE, 4, 3, 16, 9) = <<Whole(0), Num(3, 8), Whole(4), Num(9, 4)>>

\* C15: the active segments of the RPM ladder are the first k of the 30, with
\* k = round(clamp(rpm / 9000, 0, 1) * 30) for the smoothed rpm and
\* 0 <= k <= 30: so it is before the first gauge render (rpm 0, none active)
\* and after every gauge render.
C15_RpmLadder ==
  LET k == MathRound(Mul(clamp(Div(smooth["rpm"], Whole(9000)),
                               Whole(0), Whole(1)), Whole(30)))
  IN  /\ Leq(Whole(0), k) /\ Leq(k, Whole(30))
      /\ rpmBars = {i \in 0..29 : Gt(k, Whole(i))}

\* the number a string of digits writes
RECURSIVE Value(_)
Value(str) ==
  IF str = <<>> THEN 0
  ELSE 10 * Value(SubSeq(str, 1, Len(str) - 1))
         + (CHOOSE k \in 0..9 : DigitChars[k + 1] = str[Len(str)])

IsDigits(str) == \A i \in 1..Len(str) : \E k \in 1..10 : DigitChars[k] = str[i]

\* C16: for a lap time of 0 seconds or more, formatLap returns MM:SS.mmm: MM
\* is floor(seconds / 60) padded with zeros to two digits, SS.mmm is two
\* digits, a point and three digits, and is between 00.000 and 59.999;
\* formatLap(125.4) is "02:05.400" and formatLap(0) is "00:00.000".
C16_LapFormat ==
  (call.fn = "formatLap" /\ call.done) =>
     LET n  == Len(call.out)
         mm == SubSeq(call.out, 1, n - 7)
         ss == SubSeq(call.out, n - 5, n - 4)
         ms == SubSeq(call.out, n - 2, n)
     IN  /\ n >= 9
         /\ call.out[n - 6] = ":" /\ call.out[n - 3] = "."
         /\ IsDigits(mm) /\ IsDigits(ss) /\ IsDigits(ms)
         /\ mm = padStart(String(Floor(Div(call.arg, Whole(60)))), 2, "0")
         /\ Value(ss) <= 59
         /\ call.arg = Num(1254, 10) =>
               call.out = <<"0", "2", ":", "0", "5", ".", "4", "0", "0">>
         /\ call.arg = Whole(0) =>
               call.out = <<"0", "0", ":", "0", "0", ".", "0", "0", "0">>

\* C17: when the last callback of the telemetry stream was a telemetry event
\* and telemetryConnected is true, the event's payload was parsed and is the
\* latest snapshot; an event whose payload fails to parse changes neither the
\* latest snapshot nor telemetryConnected.
C17_ConnectedOnlyWhenAdopted ==
  /\ []((lastTel.kind = "event" /\ connected) =>
          (lastTel.data.wellFormed /\ latest = lastTel.data.json))
  /\ [][\A data \in EventData :
          (JSONparse(data).threw /\ Telemetry(data)) =>
             (latest' = latest /\ connected' = connected)]_vars

\* C18: cameraConnected is true exactly when the last event of the camera
\* image was a load: it is false before the first load, and from a load error
\* through the retry delay and the new request until that loads; at most one
\* retry timer is pending, no request is outstanding while it is, and a step
\* that issues a request leaves no timer pending.
C18_CameraConnectedIffLoaded ==
  /\ [](/\ cameraConnected <=> img = "loaded"
        /\ Len(timers) <= 1
        /\ timers # <<>> => (img = "broken" /\ requests = camErrors)
        /\ img \in {"none", "pending", "broken"} => ~cameraConnected)
  /\ [][requests' # requests => (timers' = <<>> /\ ~cameraConnected')]_vars

\* C18 witness: the camera loaded, failed, was requested again after the
\* delay, failed again, and the second retry timer is pending.
C18_Witness ==
  /\ camErrors = 2
  /\ requests = 2
  /\ Len(timers) = 1
  /\ img = "broken"
  /\ ~cameraConnected

\* C19: the two links and the render loop write disjoint state. A render tick
\* changes nothing of the camera link or the telemetry link; a camera load,
\* error or retry changes nothing but cameraConnected and the camera request
\* (the image, the request count, the timers); a telemetry event or error
\* changes nothing but telemetryConnected and the latest snapshot; so once
\* init has run, no step writes two of the three groups, and only a render
\* tick changes the smoothed values or the frame counter.
C19_DisjointWrites ==
  [][/\ RenderFrame => UNCHANGED <<cameraVars, telemetryVars>>
     /\ (CameraLoad \/ CameraError \/ CameraRetry) =>
          UNCHANGED <<telemetryVars, renderVars>>
     /\ (TelemetryEvent \/ TelemetryError) =>
          UNCHANGED <<cameraVars, renderVars>>
     /\ (pc = "running" /\ cameraVars' # cameraVars) =>
          UNCHANGED <<telemetryVars, renderVars>>
     /\ (pc = "running" /\ telemetryVars' # telemetryVars) =>
          UNCHANGED <<cameraVars, renderVars>>
     /\ (smooth' # smooth \/ frameCount' # frameCount) =>
          (frameTs' # frameTs /\ UNCHANGED <<cameraVars, telemetryVars>>)]_vars

\* C19 witness: the camera failed and loaded again, a snapshot was adopted,
\* and a tick smoothed toward it and counted a frame.
C19_Witness ==
  /\ cameraConnected
  /\ camErrors = 1
  /\ connected
  /\ latest = SnapFull
  /\ smooth["speed"] = Whole(20)
  /\ frameCount >= 1

\* C20: there is one render loop. Once init has run, at most one render tick
\* is scheduled and not yet run, and between two ticks exactly one; a tick
\* schedules exactly one successor; and only init and a tick schedule a tick,
\* never a camera or a telemetry callback.
C20_SingleRenderLoop ==
  /\ [](raf <= 1 /\ (pc = "running" => raf = 1))
  /\ [][/\ RenderFrame => raf' = 1
        /\ raf' > raf => (pc = "init" /\ pc' = "running")
        /\ raf' # raf => frameTs' # frameTs \/ pc' # pc]_vars

====
